---- MODULE Spec2Model ----
(***************************************************************************)
(* Permit lifecycle, signature-variant protocol and permit repository of   *)
(* luxfhe/permit (src/src/core/permit/store.ts, generate.ts).              *)
(*                                                                         *)
(* Encoding of JavaScript values:                                          *)
(*   - `undefined` is the empty sequence, a defined value v is <<v>>;      *)
(*   - a chain-id string is the sequence of its characters, a digit being  *)
(*     the number 0..9 and any other character a number >= 10;             *)
(*   - a signature is a byte string: "0x" (no bytes) is <<>>, a signature  *)
(*     produced by a signer is <<domain.chainId, nonce>>.                  *)
(***************************************************************************)
EXTENDS Integers, Sequences, FiniteSets, Bags, TLC

VARIABLES
    permit,            \* the Permit instance (`this`)
    pending,           \* bag of sign calls suspended at `await signer.signTypedData`
    clock,             \* wall clock, in half seconds
    last,              \* outcome of the most recent sign / createAndSign step
    permits,           \* _permitStore state: account -> hash -> slot
    activePermitHash,  \* _permitStore state: account -> hash | undefined
    snapshot,          \* the state object a reader got from getState()
    storage            \* the item "cofhejs-permits" of the backing storage

vars == <<permit, pending, clock, last, permits, activePermitHash, snapshot,
          storage>>

----------------------------------------------------------------------------
(* Bounds *)

MaxPending == 2        \* sign calls in flight at once
MaxClock == 4          \* half seconds the clock may advance
MaxNonce == 1          \* distinct signatures a signer may return per payload

----------------------------------------------------------------------------
(* Values *)

Undefined == <<>>
Some(x) == <<x>>

ZeroAddress == "0x0000000000000000000000000000000000000000"
EmptySignature == <<>>                       \* the string "0x"

Names == {"n1", "n2"}
PermitTypes == {"self", "sharing", "recipient"}
Issuers == {"0xA1", "0xA2"}
Expirations == {1, 2}
Recipients == {ZeroAddress, "0xB1"}
ValidatorIds == {0, 7}
ValidatorContracts == {ZeroAddress, "0xC1"}
KeyPairs == {[publicKey |-> "pk1", privateKey |-> "sk1"],
             [publicKey |-> "pk2", privateKey |-> "sk2"]}
ChainIdStrings == {<<1>>, <<3, 1, 3, 3, 7>>}  \* "1", "31337"
Signers == {"wallet"}
ImportedSignature == <<1, 0>>                \* an issuer signature received with a shared permit
Accounts == {"acc1", "acc2"}

----------------------------------------------------------------------------
(* generate.ts *)

PermitSignatureAllFields ==
    << [name |-> "issuer", type |-> "address"],
       [name |-> "expiration", type |-> "uint64"],
       [name |-> "recipient", type |-> "address"],
       [name |-> "validatorId", type |-> "uint256"],
       [name |-> "validatorContract", type |-> "address"],
       [name |-> "sealingKey", type |-> "bytes32"],
       [name |-> "issuerSignature", type |-> "bytes"] >>

\* variant of SignatureTypes: the shared issuer variant also signs sealingKey
SignatureTypes_sharedWithKey ==
    [ PermissionedIssuerSelf |->
          <<"issuer", "expiration", "recipient", "validatorId",
            "validatorContract", "sealingKey">>,
      PermissionedIssuerShared |->
          <<"issuer", "expiration", "recipient", "validatorId",
            "validatorContract", "sealingKey">>,
      PermissionedRecipient |-> <<"sealingKey", "issuerSignature">> ]

SignatureTypes ==
    [ PermissionedIssuerSelf |->
          <<"issuer", "expiration", "recipient", "validatorId",
            "validatorContract", "sealingKey">>,
      PermissionedIssuerShared |->
          <<"issuer", "expiration", "recipient", "validatorId",
            "validatorContract">>,
      PermissionedRecipient |-> <<"sealingKey", "issuerSignature">> ]

Range(seq) == {seq[i] : i \in DOMAIN seq}

\* fields.includes(x)
Includes(fields, x) == \E i \in DOMAIN fields : fields[i] = x

\* Array.prototype.filter
RECURSIVE Filter(_, _)
Filter(seq, fields) ==
    IF seq = <<>> THEN <<>>
    ELSE IF Includes(fields, Head(seq).name)
         THEN <<Head(seq)>> \o Filter(Tail(seq), fields)
         ELSE Filter(Tail(seq), fields)

getSignatureTypesAndMessage(primaryType, fields, values) ==
    [ types |-> [name |-> primaryType,
                 fields |-> Filter(PermitSignatureAllFields, fields)],
      primaryType |-> primaryType,
      message |-> [f \in {g \in Range(fields) : g \in DOMAIN values}
                       |-> values[f]] ]

NaN == 0 - 1

IsDigit(c) == c \in 0..9

\* parseInt(string): the leading run of decimal digits, NaN when there is none
RECURSIVE ParseDigits(_, _)
ParseDigits(s, acc) ==
    IF s = <<>> \/ ~IsDigit(Head(s)) THEN acc
    ELSE ParseDigits(Tail(s), acc * 10 + Head(s))

parseInt(s) ==
    IF s = <<>> \/ ~IsDigit(Head(s)) THEN NaN ELSE ParseDigits(s, 0)

getSignatureDomain(chainId) ==
    [ name |-> "Fhenix Permission 1.0.0",
      version |-> "1.0.0",
      chainId |-> parseInt(chainId),
      verifyingContract |-> ZeroAddress ]

----------------------------------------------------------------------------
(* permit.ts: construction *)

\* new SealingKey(privateKey, publicKey)
SealingKey(privateKey, publicKey) ==
    [cls |-> "SealingKey", privateKey |-> privateKey, publicKey |-> publicKey]

\* new Permit(options, metadata)
Permit(options, metadata) ==
    [ name |-> options.name,
      type |-> options.type,
      issuer |-> options.issuer,
      expiration |-> options.expiration,
      recipient |-> options.recipient,
      validatorId |-> options.validatorId,
      validatorContract |-> options.validatorContract,
      sealingPair |-> options.sealingPair,
      issuerSignature |-> options.issuerSignature,
      recipientSignature |-> options.recipientSignature,
      _signedChainId |-> IF "_signedChainId" \in DOMAIN metadata
                         THEN metadata._signedChainId ELSE Undefined ]

\* PermitOptions a caller may pass to Permit.create
PermitOptions ==
    [ name : Names,
      type : PermitTypes,
      issuer : Issuers,
      expiration : Expirations,
      recipient : Recipients,
      validatorId : ValidatorIds,
      validatorContract : ValidatorContracts,
      sealingPair : {Undefined} \cup {Some(k) : k \in KeyPairs},
      issuerSignature : {EmptySignature, ImportedSignature},
      recipientSignature : {EmptySignature} ]

\* PermitParamsValidator.safeParse(options).success (permit.z): the
\* kind-dependent required fields
PermitParamsValidator(options) ==
    /\ options.type = "sharing" => options.recipient # ZeroAddress
    /\ options.type = "recipient" =>
           /\ options.recipient # ZeroAddress
           /\ options.issuerSignature # EmptySignature

\* Permit.create(options); `generated` is the result of GenerateSealingKey().
\* Undefined stands for the thrown validation error.
create(options, generated) ==
    IF ~PermitParamsValidator(options) THEN Undefined
    ELSE LET sealingPair ==
                 IF options.sealingPair # Undefined
                 THEN SealingKey(options.sealingPair[1].privateKey,
                                 options.sealingPair[1].publicKey)
                 ELSE SealingKey(generated.privateKey, generated.publicKey)
         IN Some(Permit([options EXCEPT !.sealingPair = sealingPair], <<>>))

----------------------------------------------------------------------------
(* permit.ts: projections *)

getInterface(this) ==
    [ name |-> this.name,
      type |-> this.type,
      issuer |-> this.issuer,
      expiration |-> this.expiration,
      recipient |-> this.recipient,
      validatorId |-> this.validatorId,
      validatorContract |-> this.validatorContract,
      sealingPair |-> this.sealingPair,
      issuerSignature |-> this.issuerSignature,
      recipientSignature |-> this.recipientSignature ]

\* obj[key] of a JavaScript object: undefined when the key is missing
Lookup(obj, key) == IF key \in DOMAIN obj THEN obj[key] ELSE Undefined

\* the record r without the keys in `drop` (object rest destructuring)
Omit(r, drop) == [k \in DOMAIN r \ drop |-> r[k]]

\* the record r with key k set to v (object spread followed by a key)
With(r, k, v) == [j \in DOMAIN r \cup {k} |-> IF j = k THEN v ELSE r[j]]

serialize(this) ==
    LET i == getInterface(this)
        sealingPair == i.sealingPair
        p == Omit(i, {"sealingPair"})
    IN With(With(p, "_signedChainId", this._signedChainId),
            "sealingPair",
            [publicKey |-> sealingPair.publicKey,
             privateKey |-> sealingPair.privateKey])

\* variant of export: the issuer's signature is exported for every kind
export_anyKind(this) ==
    LET base == [ name |-> this.name, type |-> this.type,
                  issuer |-> this.issuer, expiration |-> this.expiration ]
        r == IF this.recipient # ZeroAddress
             THEN With(base, "recipient", this.recipient) ELSE base
        v == IF this.validatorId # 0
             THEN With(r, "validatorId", this.validatorId) ELSE r
        c == IF this.validatorContract # ZeroAddress
             THEN With(v, "validatorContract", this.validatorContract) ELSE v
    IN IF this.issuerSignature # EmptySignature
       THEN With(c, "issuerSignature", this.issuerSignature) ELSE c

\* export(): the object that JSON.stringify writes out, key by key
export(this) ==
    LET base == [ name |-> this.name, type |-> this.type,
                  issuer |-> this.issuer, expiration |-> this.expiration ]
        r == IF this.recipient # ZeroAddress
             THEN With(base, "recipient", this.recipient) ELSE base
        v == IF this.validatorId # 0
             THEN With(r, "validatorId", this.validatorId) ELSE r
        c == IF this.validatorContract # ZeroAddress
             THEN With(v, "validatorContract", this.validatorContract) ELSE v
    IN IF this.type = "sharing" /\ this.issuerSignature # EmptySignature
       THEN With(c, "issuerSignature", this.issuerSignature) ELSE c

\* a JavaScript value as a tree: k is the kind of the node ("number",
\* "string", "boolean", "bigint", "address", "array", "object", "sealed"),
\* v the value of a leaf (the ciphertext `data` of a sealed item), u the
\* utype of a sealed item, kids the elements of an array or the values of
\* an object, keys the keys of an object
Node(k, v, u, kids, keys) ==
    [k |-> k, v |-> v, u |-> u, kids |-> kids, keys |-> keys]

Scalar(k, v) == Node(k, v, "", <<>>, <<>>)
SealedItem(utype, data) == Node("sealed", data, utype, <<>>, <<>>)
Array(kids) == Node("array", 0, "", kids, <<>>)
Object(keys, kids) == Node("object", 0, "", kids, keys)

\* the error a call throws, in place of its result
Thrown == Node("throw", 0, "", <<>>, <<>>)

\* the hex digits of an address: 2 here, standing for the 40 of 160 bits
AddressHexDigits == 2

\* bn.toString(16): the hex digits of a bigint, without leading zeros
RECURSIVE toString16(_)
toString16(bn) ==
    IF bn < 16 THEN <<bn>> ELSE Append(toString16(bn \div 16), bn % 16)

\* string.slice(-n): the last n characters, the whole string when shorter
slice(str, n) ==
    IF Len(str) <= n THEN str ELSE SubSeq(str, Len(str) - n + 1, Len(str))

\* the number a string of hex digits spells
RECURSIVE HexValue(_)
HexValue(str) ==
    IF str = <<>> THEN 0
    ELSE 16 * HexValue(SubSeq(str, 1, Len(str) - 1)) + str[Len(str)]

\* ethers getAddress("0x" + hex): the checksummed address of exactly
\* AddressHexDigits hex digits; any other length is "invalid address"
getAddress(hex) ==
    IF Len(hex) = AddressHexDigits
    THEN Scalar("address", HexValue(hex)) ELSE Thrown

\* getAsSealedItem(item): the item when it carries the discriminant of a
\* sealed boolean, address or unsigned integer, undefined otherwise
getAsSealedItem(item) ==
    IF item.k = "sealed" /\ item.u \in {"bool", "address", "uint"}
    THEN Some(item) ELSE Undefined

isSealedBool(item) == item.u = "bool"
isSealedAddress(item) == item.u = "address"
isSealedUint(item) == item.u = "uint"

\* chainIsHardhat(chainId): the chain id of the local development network
chainIsHardhat(chainId) == chainId = Some(<<3, 1, 3, 3, 7>>)

\* hardhatMockUnseal(data): the integer the mock ciphertext spells
hardhatMockUnseal(data) == data

\* the ciphertexts a caller holds and what they decrypt to under the key
Ciphertexts == {1, 2, 200}
Plaintext(data) == IF data = 1 THEN 0 ELSE IF data = 2 THEN 951 ELSE 5

\* sealingPair.unseal(data)
SealingKeyUnseal(sealingPair, data) == Plaintext(data)

\* unseal(item): the result, or Thrown when a nested call throws
RECURSIVE unsealValue(_, _)
unsealValue(this, item) ==
    LET sealedItem == getAsSealedItem(item)
        bn == IF chainIsHardhat(this._signedChainId)
              THEN hardhatMockUnseal(item.v)
              ELSE SealingKeyUnseal(this.sealingPair, item.v)
        rec == [i \in DOMAIN item.kids |-> unsealValue(this, item.kids[i])]
    IN IF sealedItem # Undefined /\ isSealedBool(item)
       THEN Scalar("boolean", IF bn # 0 THEN 1 ELSE 0)
       ELSE IF sealedItem # Undefined /\ isSealedAddress(item)
       THEN getAddress(slice(toString16(bn), AddressHexDigits))
       ELSE IF sealedItem # Undefined /\ isSealedUint(item)
       THEN Scalar("bigint", bn)
       ELSE IF item.k \in {"array", "object"}
       THEN IF \E i \in DOMAIN rec : rec[i] = Thrown THEN Thrown
            ELSE [item EXCEPT !.kids = rec]
       ELSE item

\* variant of deserialize: the SealingKey arguments in the wrong order
deserialize_swappedKeys(saved) ==
    LET p == Omit(saved, {"_signedChainId", "sealingPair"})
    IN Permit(With(p, "sealingPair",
                   SealingKey(saved.sealingPair.publicKey,
                              saved.sealingPair.privateKey)),
              [_signedChainId |-> Lookup(saved, "_signedChainId")])

deserialize(saved) ==
    LET p == Omit(saved, {"_signedChainId", "sealingPair"})
    IN Permit(With(p, "sealingPair",
                   SealingKey(saved.sealingPair.privateKey,
                              saved.sealingPair.publicKey)),
              [_signedChainId |-> Lookup(saved, "_signedChainId")])

\* getPermission(skipValidation = true), the form the signing path uses
getPermission(this) ==
    LET permitData == getInterface(this)
        p == Omit(permitData, {"name", "type", "sealingPair"})
    IN With(p, "sealingKey", <<"0x", permitData.sealingPair.publicKey>>)

\* variant of getHash: the name is hashed too
getHash_withName(this) ==
    << this.name, this.type, this.issuer, this.expiration, this.recipient,
       this.validatorId, this.validatorContract >>

\* keccak256(id(JSON.stringify({type, issuer, ...}))): the digest is taken as
\* injective, so the hash is the serialized tuple in key order
getHash(this) ==
    << this.type, this.issuer, this.expiration, this.recipient,
       this.validatorId, this.validatorContract >>

getSignatureParams(this, chainId, primaryType) ==
    With(getSignatureTypesAndMessage(primaryType, SignatureTypes[primaryType],
                                     getPermission(this)),
         "domain", getSignatureDomain(chainId))

\* variant of isSigned: only the issuer's signature is looked at
isSigned_issuerOnly(this) == this.issuerSignature # EmptySignature

isSigned(this) ==
    IF this.type = "self" \/ this.type = "sharing"
    THEN this.issuerSignature # EmptySignature
    ELSE IF this.type = "recipient"
         THEN this.recipientSignature # EmptySignature
         ELSE FALSE

\* Date.now(), in milliseconds
DateNow == clock * 500

isExpired(this) == this.expiration < DateNow \div 1000

\* variant of isValid: signedness is checked before expiration
isValid_signedFirst(this) ==
    IF ~isSigned(this) THEN [valid |-> FALSE, error |-> "not-signed"]
    ELSE IF isExpired(this) THEN [valid |-> FALSE, error |-> "expired"]
    ELSE [valid |-> TRUE, error |-> "null"]

isValid(this) ==
    IF isExpired(this) THEN [valid |-> FALSE, error |-> "expired"]
    ELSE IF ~isSigned(this) THEN [valid |-> FALSE, error |-> "not-signed"]
    ELSE [valid |-> TRUE, error |-> "null"]

----------------------------------------------------------------------------
(* permit.ts: sign *)

\* sign, lines 435-442: the precondition failures
signThrows(chainId, signer) == chainId = Undefined \/ signer = Undefined

\* sign, lines 444-447
primaryTypeOf(this) ==
    LET t0 == "PermissionedIssuerSelf"
        t1 == IF this.type = "self" THEN "PermissionedIssuerSelf" ELSE t0
        t2 == IF this.type = "sharing" THEN "PermissionedIssuerShared" ELSE t1
    IN IF this.type = "recipient" THEN "PermissionedRecipient" ELSE t2

\* variant of signBeforeAwait: the chain id is recorded before the await
signBeforeAwait_earlyChainId(this, chainId) ==
    [this EXCEPT !._signedChainId = Some(chainId)]

\* sign, lines 444-453: what happens to `this` up to the await (nothing)
signBeforeAwait(this, chainId) == this

\* sign, lines 449-453: the call handed to signer.signTypedData; `local` is
\* the permit the call works on when it is not the shared instance
signCall(this, local, op, chainId, signer) ==
    LET params == getSignatureParams(this, chainId, primaryTypeOf(this))
    IN [ op |-> op,
         local |-> local,
         chainId |-> chainId,
         signer |-> signer,
         primaryType |-> params.primaryType,
         domain |-> params.domain,
         types |-> params.types,
         message |-> params.message ]

\* variant of signAfterAwait: a chain id already recorded is kept
signAfterAwait_firstChainId(this, signature, chainId) ==
    LET a == IF this.type = "self" \/ this.type = "sharing"
             THEN [this EXCEPT !.issuerSignature = signature] ELSE this
        b == IF a.type = "recipient"
             THEN [a EXCEPT !.recipientSignature = signature] ELSE a
    IN IF this._signedChainId = Undefined
       THEN [b EXCEPT !._signedChainId = Some(chainId)] ELSE b

\* variant of signAfterAwait: the chain id is recorded, the signature is not
signAfterAwait_chainIdOnly(this, signature, chainId) ==
    [this EXCEPT !._signedChainId = Some(chainId)]

\* variant of signAfterAwait: the signature always lands in issuerSignature
signAfterAwait_alwaysIssuer(this, signature, chainId) ==
    [this EXCEPT !.issuerSignature = signature,
                 !._signedChainId = Some(chainId)]

\* sign, lines 455-462: the continuation once the signature has arrived
signAfterAwait(this, signature, chainId) ==
    LET a == IF this.type = "self" \/ this.type = "sharing"
             THEN [this EXCEPT !.issuerSignature = signature] ELSE this
        b == IF a.type = "recipient"
             THEN [a EXCEPT !.recipientSignature = signature] ELSE a
    IN [b EXCEPT !._signedChainId = Some(chainId)]

\* what a signer returns for a payload: a signature over that payload
Signatures(call) == {<<call.domain.chainId, n>> : n \in 1..MaxNonce}

Outcome(op, phase, chainId, signer, signature, primaryType, ret) ==
    [ op |-> op, phase |-> phase, chainId |-> chainId, signer |-> signer,
      signature |-> signature, primaryType |-> primaryType, ret |-> ret ]

ChainIdArgs == {Undefined} \cup {Some(c) : c \in ChainIdStrings}
SignerArgs == {Undefined} \cup {Some(w) : w \in Signers}

\* variant of sign: the chain id is recorded before the arguments are checked
sign_recordsBeforeCheck(chainId, signer) ==
    IF signThrows(chainId, signer)
    THEN /\ permit' = [permit EXCEPT !._signedChainId = chainId]
         /\ last' = Outcome("sign", "throw", chainId, signer,
                            EmptySignature, "", Undefined)
         /\ UNCHANGED <<snapshot, storage, pending, clock, permits, activePermitHash>>
    ELSE /\ BagCardinality(pending) < MaxPending
         /\ permit' = [permit EXCEPT !._signedChainId = chainId]
         /\ pending' = pending (+) SetToBag({signCall(permit, Undefined, "sign",
                                                      chainId[1], signer[1])})
         /\ last' = Outcome("sign", "await", chainId, signer,
                            EmptySignature, primaryTypeOf(permit), Undefined)
         /\ UNCHANGED <<snapshot, storage, clock, permits, activePermitHash>>

\* permit.sign(chainId, signer), up to its suspension at the signer
sign(chainId, signer) ==
    IF signThrows(chainId, signer)
    THEN /\ last' = Outcome("sign", "throw", chainId, signer,
                            EmptySignature, "", Undefined)
         /\ UNCHANGED <<snapshot, storage, permit, pending, clock, permits, activePermitHash>>
    ELSE /\ BagCardinality(pending) < MaxPending
         /\ permit' = signBeforeAwait(permit, chainId[1])
         /\ pending' = pending (+) SetToBag({signCall(permit, Undefined, "sign",
                                                      chainId[1], signer[1])})
         /\ last' = Outcome("sign", "await", chainId, signer,
                            EmptySignature, primaryTypeOf(permit), Undefined)
         /\ UNCHANGED <<snapshot, storage, clock, permits, activePermitHash>>

\* the options createAndSign is called with
CreateAndSignOptions ==
    { o \in PermitOptions :
        /\ o.name = "n2" /\ o.issuer = "0xA2" /\ o.expiration = 2
        /\ o.validatorId = 0 /\ o.validatorContract = ZeroAddress
        /\ o.sealingPair # Undefined /\ o.sealingPair[1].publicKey = "pk2"
        /\ o.issuerSignature = ImportedSignature
        /\ o.type \in {"self", "sharing"}
        /\ o.recipient = ZeroAddress }

\* Permit.createAndSign(options, chainId, signer), up to its suspension;
\* `generated` is the result of GenerateSealingKey()
createAndSign(options, generated, chainId, signer) ==
    LET created == create(options, generated)
    IN IF created = Undefined \/ signThrows(chainId, signer)
       THEN /\ last' = Outcome("createAndSign", "throw", chainId, signer,
                               EmptySignature, "", Undefined)
            /\ UNCHANGED <<snapshot, storage, permit, pending, clock, permits, activePermitHash>>
       ELSE /\ BagCardinality(pending) < MaxPending
            /\ pending' = pending (+) SetToBag({
                   signCall(created[1],
                            Some(signBeforeAwait(created[1], chainId[1])),
                            "createAndSign", chainId[1], signer[1])})
            /\ last' = Outcome("createAndSign", "await", chainId, signer,
                               EmptySignature, primaryTypeOf(created[1]),
                               Undefined)
            /\ UNCHANGED <<snapshot, storage, permit, clock, permits, activePermitHash>>

\* the signer resolves the suspended call `call` with `signature`
signerResolves(call, signature) ==
    /\ BagIn(call, pending)
    /\ pending' = pending (-) SetToBag({call})
    /\ IF call.local = Undefined
       THEN /\ permit' = signAfterAwait(permit, signature, call.chainId)
            /\ last' = Outcome(call.op, "return", Some(call.chainId),
                               Some(call.signer), signature,
                               call.primaryType, Undefined)
       ELSE /\ permit' = permit
            /\ last' = Outcome(call.op, "return", Some(call.chainId),
                               Some(call.signer), signature,
                               call.primaryType,
                               Some(signAfterAwait(call.local[1], signature,
                                                   call.chainId)))
    /\ UNCHANGED <<snapshot, storage, clock, permits, activePermitHash>>

\* the signer rejects the suspended call `call`: the await throws
signerRejects(call) ==
    /\ BagIn(call, pending)
    /\ pending' = pending (-) SetToBag({call})
    /\ last' = Outcome(call.op, "rejected", Some(call.chainId),
                       Some(call.signer), EmptySignature,
                       call.primaryType, Undefined)
    /\ UNCHANGED <<snapshot, storage, permit, clock, permits, activePermitHash>>

\* variant of updateName: the stored entries of the permit's hash are the
\* instance's own object and are renamed with it
updateName_writesStored(name) ==
    /\ permit' = [permit EXCEPT !.name = name]
    /\ permits' =
           [ a \in DOMAIN permits |->
               [ h \in DOMAIN permits[a] |->
                   IF h = getHash(permit) /\ permits[a][h] # Undefined
                   THEN Some([permits[a][h][1] EXCEPT !.name = name])
                   ELSE permits[a][h] ] ]
    /\ UNCHANGED <<snapshot, storage, pending, clock, last, activePermitHash>>

updateName(name) ==
    /\ permit' = [permit EXCEPT !.name = name]
    /\ UNCHANGED <<snapshot, storage, pending, clock, last, permits, activePermitHash>>

\* time passes
Tick ==
    /\ clock < MaxClock
    /\ clock' = clock + 1
    /\ UNCHANGED <<snapshot, storage, permit, pending, last, permits, activePermitHash>>

----------------------------------------------------------------------------
(* Permit lifecycle *)

\* the state after `permit = await Permit.create(o)` for some o of `options`
InitWith(options, generatedKeys) ==
    /\ \E o \in options, g \in generatedKeys :
           /\ create(o, g) # Undefined
           /\ permit = create(o, g)[1]
    /\ pending = EmptyBag
    /\ clock = 0
    /\ last = Outcome("create", "return", Undefined, Undefined,
                      EmptySignature, "", Undefined)
    /\ permits = <<>>
    /\ activePermitHash = <<>>
    /\ snapshot = [permits |-> <<>>, activePermitHash |-> <<>>]
    /\ storage = Undefined

\* options that vary the kind, the expiration and the issuer's signature
LifecycleOptions ==
    { o \in PermitOptions :
        /\ o.name = "n1" /\ o.issuer = "0xA1" /\ o.recipient = "0xB1"
        /\ o.validatorId = 0 /\ o.validatorContract = ZeroAddress
        /\ o.sealingPair = Undefined }

Init == InitWith(LifecycleOptions, {k \in KeyPairs : k.publicKey = "pk1"})

Next ==
    \/ \E n \in Names : updateName(n)
    \/ \E c \in ChainIdArgs, w \in SignerArgs : sign(c, w)
    \/ \E o \in CreateAndSignOptions, g \in KeyPairs :
           \E c \in ChainIdArgs, w \in SignerArgs : createAndSign(o, g, c, w)
    \/ \E call \in BagToSet(pending) :
           \E s \in Signatures(call) : signerResolves(call, s)
    \/ \E call \in BagToSet(pending) : signerRejects(call)
    \/ Tick

Spec == Init /\ [][Next]_vars

\* every permit Permit.create can return, signed and renamed at will
InitFields == InitWith(PermitOptions, KeyPairs)

NextFields ==
    \/ \E n \in Names : updateName(n)
    \/ \E c \in ChainIdArgs, w \in SignerArgs : sign(c, w)
    \/ \E call \in BagToSet(pending) :
           \E s \in Signatures(call) : signerResolves(call, s)
    \/ \E call \in BagToSet(pending) : signerRejects(call)

SpecFields == InitFields /\ [][NextFields]_vars

\* options that also carry a recipient signature, as a stored or received
\* permit does
SignedOptions ==
    { [o EXCEPT !.recipientSignature = r] :
          o \in LifecycleOptions, r \in {EmptySignature, ImportedSignature} }

\* the instance is replaced by Permit.deserialize(permit.serialize())
reload ==
    /\ permit' = deserialize(serialize(permit))
    /\ last' = Outcome("deserialize", "return", Undefined, Undefined,
                       EmptySignature, "", Undefined)
    /\ UNCHANGED <<snapshot, storage, pending, clock, permits,
                   activePermitHash>>

InitSigned == InitWith(SignedOptions, {k \in KeyPairs : k.publicKey = "pk1"})

\* a permit created with any signatures, signed and reloaded
NextSigned ==
    \/ \E c \in ChainIdArgs, w \in SignerArgs : sign(c, w)
    \/ \E call \in BagToSet(pending) :
           \E sig \in Signatures(call) : signerResolves(call, sig)
    \/ \E call \in BagToSet(pending) : signerRejects(call)
    \/ reload

SpecSigned == InitSigned /\ [][NextSigned]_vars

\* a chain id that is no number: "abc"
NonNumericChainId == <<10, 11, 12>>

CallChainIdArgs == ChainIdArgs \cup {Some(NonNumericChainId)}

\* the methods of a permit that only read it
Projections ==
    {"getHash", "getPermission", "getSignatureParams", "serialize", "export",
     "isSigned", "isExpired", "isValid"}

\* variant of afterProjection: getSignatureParams records the chain id
afterProjection_recordsChainId(this, op) ==
    IF op = "getSignatureParams"
    THEN [this EXCEPT !._signedChainId = Some(<<1>>)] ELSE this

\* `this` after a call of the projection `op`: none of the method bodies
\* assigns a field of `this`
afterProjection(this, op) == this

\* `this` after unseal / unsealCiphertext: the sealing pair is only read
afterUnseal(this) == this

\* a call of one of the projections on the instance
project(op) ==
    /\ permit' = afterProjection(permit, op)
    /\ last' = Outcome(op, "return", Undefined, Undefined, EmptySignature,
                       "", Undefined)
    /\ UNCHANGED <<snapshot, storage, pending, clock, permits,
                   activePermitHash>>

\* permit.unseal(item)
unseal ==
    /\ permit' = afterUnseal(permit)
    /\ last' = Outcome("unseal", "return", Undefined, Undefined,
                       EmptySignature, "", Undefined)
    /\ UNCHANGED <<snapshot, storage, pending, clock, permits,
                   activePermitHash>>

\* every public operation of one permit, with any chain id a caller may pass
NextCalls ==
    \/ \E n \in Names : updateName(n)
    \/ \E c \in CallChainIdArgs, w \in SignerArgs : sign(c, w)
    \/ \E call \in BagToSet(pending) :
           \E sig \in Signatures(call) : signerResolves(call, sig)
    \/ \E call \in BagToSet(pending) : signerRejects(call)
    \/ \E op \in Projections : project(op)
    \/ unseal

SpecCalls == Init /\ [][NextCalls]_vars

----------------------------------------------------------------------------
(* store.ts: the permit repository *)

\* _permitStore.getState().permits[account]?.[hash]
SavedPermit(account, hash) ==
    IF account \in DOMAIN permits THEN Lookup(permits[account], hash)
    ELSE Undefined

\* getPermit(account, hash); the arguments and the result may be undefined
getPermit(account, hash) ==
    IF account = Undefined \/ hash = Undefined THEN Undefined
    ELSE LET savedPermit == SavedPermit(account[1], hash[1])
         IN IF savedPermit = Undefined THEN Undefined
            ELSE Some(deserialize(savedPermit[1]))

getActivePermitHash(account) ==
    IF account = Undefined THEN Undefined
    ELSE Lookup(activePermitHash, account[1])

getActivePermit(account) ==
    IF account = Undefined THEN Undefined
    ELSE getPermit(account, Lookup(activePermitHash, account[1]))

\* getPermits(account): the live permits of the account, keyed by hash
getPermits(account) ==
    IF account = Undefined THEN <<>>
    ELSE LET slots == IF account[1] \in DOMAIN permits
                      THEN permits[account[1]] ELSE <<>>
         IN [h \in {k \in DOMAIN slots : slots[k] # Undefined}
                 |-> deserialize(slots[h][1])]

\* Permit.deserialize(saved) destructures `saved` and reads
\* saved.sealingPair.privateKey: a TypeError when either is undefined
deserializeThrows(saved) ==
    saved = Undefined \/ "sealingPair" \notin DOMAIN saved[1]

\* variant of getPermitThrows: no `savedPermit == null` early return
getPermitThrows_noGuard(account, hash) ==
    IF account = Undefined \/ hash = Undefined THEN FALSE
    ELSE deserializeThrows(SavedPermit(account[1], hash[1]))

\* whether getPermit(account, hash) raises an error
getPermitThrows(account, hash) ==
    IF account = Undefined \/ hash = Undefined THEN FALSE
    ELSE LET savedPermit == SavedPermit(account[1], hash[1])
         IN IF savedPermit = Undefined THEN FALSE
            ELSE deserializeThrows(savedPermit)

\* whether getActivePermit(account) raises an error
getActivePermitThrows(account) ==
    IF account = Undefined THEN FALSE
    ELSE getPermitThrows(account, Lookup(activePermitHash, account[1]))

\* whether getPermits(account) raises an error
getPermitsThrows(account) ==
    IF account = Undefined THEN FALSE
    ELSE LET slots == IF account[1] \in DOMAIN permits
                      THEN permits[account[1]] ELSE <<>>
         IN \E h \in DOMAIN slots :
                slots[h] # Undefined /\ deserializeThrows(slots[h])

\* JSON.stringify of a stored permit: a key whose value is undefined is
\* left out ("0x" is a string and stays)
StringifyPermit(saved) ==
    IF Lookup(saved, "_signedChainId") = Undefined
    THEN Omit(saved, {"_signedChainId"}) ELSE saved

\* JSON.stringify of the store's state, as persist writes it: undefined slots
\* and undefined active pointers are left out
Stringify(state) ==
    [ permits |->
          [ a \in DOMAIN state.permits |->
                [ h \in {k \in DOMAIN state.permits[a] :
                            state.permits[a][k] # Undefined} |->
                      Some(StringifyPermit(state.permits[a][h][1])) ] ],
      activePermitHash |->
          [ a \in {b \in DOMAIN state.activePermitHash :
                      state.activePermitHash[b] # Undefined} |->
                state.activePermitHash[a] ] ]

\* persist's setState: the new state is written to the storage item
Persisted ==
    storage' = Some(Stringify([permits |-> permits',
                               activePermitHash |-> activePermitHash']))

\* variant of rehydrate: only `permits` is taken from the stored item
rehydrate_permitsOnly(item) ==
    IF item = Undefined
    THEN [permits |-> <<>>, activePermitHash |-> <<>>]
    ELSE [permits |-> item[1].permits, activePermitHash |-> <<>>]

\* persist at store creation: the parsed item is merged over the initial
\* state; without an item the initial state stays
rehydrate(item) ==
    IF item = Undefined
    THEN [permits |-> <<>>, activePermitHash |-> <<>>]
    ELSE [permits |-> item[1].permits,
          activePermitHash |-> item[1].activePermitHash]

RepoOutcome(op, phase, account, hash) ==
    [op |-> op, phase |-> phase, account |-> account, hash |-> hash]

\* variant of setPermit: an entry already stored under the hash is kept
setPermit_keepsExisting(account) ==
    LET slots == IF account \in DOMAIN permits THEN permits[account]
                 ELSE <<>>
        hash == getHash(permit)
    IN /\ permits' = IF Lookup(slots, hash) # Undefined THEN permits
                     ELSE With(permits, account,
                               With(slots, hash, Some(serialize(permit))))
       /\ last' = RepoOutcome("setPermit", "return", account, hash)
       /\ UNCHANGED <<snapshot, permit, pending, clock, activePermitHash>>
       /\ Persisted

\* variant of setPermit: the recipe writes the current state object itself,
\* which a reader that took it just before still holds
setPermit_inPlace(account) ==
    LET slots == IF account \in DOMAIN permits THEN permits[account]
                 ELSE <<>>
    IN /\ permits' = With(permits, account,
                          With(slots, getHash(permit),
                               Some(serialize(permit))))
       /\ snapshot' =
              IF snapshot = [permits |-> permits,
                             activePermitHash |-> activePermitHash]
              THEN [permits |-> permits',
                    activePermitHash |-> activePermitHash]
              ELSE snapshot
       /\ last' = RepoOutcome("setPermit", "return", account, getHash(permit))
       /\ UNCHANGED <<permit, pending, clock, activePermitHash>>
       /\ Persisted

\* setPermit(account, permit) with the instance `permit`
setPermit(account) ==
    LET slots == IF account \in DOMAIN permits THEN permits[account]
                 ELSE <<>>
    IN /\ permits' = With(permits, account,
                          With(slots, getHash(permit),
                               Some(serialize(permit))))
       /\ last' = RepoOutcome("setPermit", "return", account, getHash(permit))
       /\ UNCHANGED <<snapshot, permit, pending, clock, activePermitHash>>
       /\ Persisted

\* variant of removePermit: the key is deleted from the slot map
removePermit_deletesKey(account, hash) ==
    IF account \notin DOMAIN permits
    THEN /\ last' = RepoOutcome("removePermit", "throw", account, hash)
         /\ UNCHANGED <<snapshot, storage, permit, pending, clock, permits, activePermitHash>>
    ELSE /\ permits' = With(permits, account, Omit(permits[account], {hash}))
         /\ last' = RepoOutcome("removePermit", "return", account, hash)
         /\ UNCHANGED <<snapshot, permit, pending, clock, activePermitHash>>
         /\ Persisted

\* variant of removePermit: an active pointer at the removed hash is cleared
removePermit_clearsActive(account, hash) ==
    IF account \notin DOMAIN permits
    THEN /\ last' = RepoOutcome("removePermit", "throw", account, hash)
         /\ UNCHANGED <<snapshot, storage, permit, pending, clock, permits, activePermitHash>>
    ELSE /\ permits' = With(permits, account,
                            With(permits[account], hash, Undefined))
         /\ activePermitHash' =
                IF Lookup(activePermitHash, account) = Some(hash)
                THEN With(activePermitHash, account, Undefined)
                ELSE activePermitHash
         /\ last' = RepoOutcome("removePermit", "return", account, hash)
         /\ UNCHANGED <<snapshot, permit, pending, clock>>
         /\ Persisted

\* removePermit(account, hash); writing a slot of a missing slot map is a
\* TypeError raised inside produce, before setState is reached
removePermit(account, hash) ==
    IF account \notin DOMAIN permits
    THEN /\ last' = RepoOutcome("removePermit", "throw", account, hash)
         /\ UNCHANGED <<snapshot, storage, permit, pending, clock, permits, activePermitHash>>
    ELSE /\ permits' = With(permits, account,
                            With(permits[account], hash, Undefined))
         /\ last' = RepoOutcome("removePermit", "return", account, hash)
         /\ UNCHANGED <<snapshot, permit, pending, clock, activePermitHash>>
         /\ Persisted

\* variant of setActivePermitHash: the pointer of every account is written
setActivePermitHash_global(account, hash) ==
    /\ activePermitHash' =
           [a \in DOMAIN activePermitHash \cup {account} |-> Some(hash)]
    /\ last' = RepoOutcome("setActivePermitHash", "return", account, hash)
    /\ UNCHANGED <<snapshot, permit, pending, clock, permits>>
    /\ Persisted

setActivePermitHash(account, hash) ==
    /\ activePermitHash' = With(activePermitHash, account, Some(hash))
    /\ last' = RepoOutcome("setActivePermitHash", "return", account, hash)
    /\ UNCHANGED <<snapshot, permit, pending, clock, permits>>
    /\ Persisted

removeActivePermitHash(account) ==
    /\ activePermitHash' = With(activePermitHash, account, Undefined)
    /\ last' = RepoOutcome("removeActivePermitHash", "return", account,
                           Undefined)
    /\ UNCHANGED <<snapshot, permit, pending, clock, permits>>
    /\ Persisted

\* the caller goes on with another permit, made by Permit.create(options)
newPermit(options, generated) ==
    /\ pending = EmptyBag
    /\ create(options, generated) # Undefined
    /\ permit' = create(options, generated)[1]
    /\ last' = Outcome("create", "return", Undefined, Undefined,
                       EmptySignature, "", Undefined)
    /\ UNCHANGED <<snapshot, storage, pending, clock, permits, activePermitHash>>

\* a reader takes the current state object: _permitStore.getState()
getState ==
    /\ snapshot' = [permits |-> permits, activePermitHash |-> activePermitHash]
    /\ UNCHANGED <<permit, pending, clock, last, permits, activePermitHash,
                   storage>>

\* the process ends and a new one creates the store, which rehydrates
restart ==
    LET state == rehydrate(storage)
    IN /\ pending = EmptyBag
       /\ permits' = state.permits
       /\ activePermitHash' = state.activePermitHash
       /\ last' = [op |-> "restart", phase |-> "return"]
       /\ UNCHANGED <<permit, pending, clock, snapshot, storage>>

\* the permits the repository is exercised with: two grants of one issuer
RepoOptions ==
    { o \in PermitOptions :
        /\ o.name = "n1" /\ o.type = "self" /\ o.issuer = "0xA1"
        /\ o.recipient = ZeroAddress
        /\ o.validatorId = 0 /\ o.validatorContract = ZeroAddress
        /\ o.sealingPair = Undefined
        /\ o.issuerSignature = EmptySignature }

RepoKeys == {k \in KeyPairs : k.publicKey = "pk1"}

\* the hashes callers pass to removePermit and setActivePermitHash
RepoHashes == {getHash(create(o, g)[1]) : o \in RepoOptions, g \in RepoKeys}

InitRepo == InitWith(RepoOptions, RepoKeys)

NextRepo ==
    \/ \E o \in RepoOptions, g \in RepoKeys : newPermit(o, g)
    \/ \E n \in Names : updateName(n)
    \/ \E a \in Accounts : setPermit(a)
    \/ \E a \in Accounts, h \in RepoHashes : removePermit(a, h)
    \/ \E a \in Accounts, h \in RepoHashes : setActivePermitHash(a, h)
    \/ \E a \in Accounts : removeActivePermitHash(a)

SpecRepo == InitRepo /\ [][NextRepo]_vars

\* the repository with a reader that takes state objects between the writes
SnapshotAccounts == {"acc1"}

NextSnapshot ==
    \/ \E a \in SnapshotAccounts : setPermit(a)
    \/ \E a \in SnapshotAccounts, h \in RepoHashes : removePermit(a, h)
    \/ \E a \in SnapshotAccounts, h \in RepoHashes : setActivePermitHash(a, h)
    \/ \E a \in SnapshotAccounts : removeActivePermitHash(a)
    \/ getState

SpecSnapshot == InitRepo /\ [][NextSnapshot]_vars

\* the caller goes on with the permit that getPermit(account, hash) returns
load(account, hash) ==
    /\ pending = EmptyBag
    /\ getPermit(Some(account), Some(hash)) # Undefined
    /\ permit' = getPermit(Some(account), Some(hash))[1]
    /\ last' = RepoOutcome("getPermit", "return", account, hash)
    /\ UNCHANGED <<snapshot, storage, pending, clock, permits,
                   activePermitHash>>

\* one permit that is put, then signed and renamed, and read back
NextCopy ==
    \/ \E a \in SnapshotAccounts : setPermit(a)
    \/ \E a \in SnapshotAccounts, h \in RepoHashes : load(a, h)
    \/ \E n \in Names : updateName(n)
    \/ \E c \in ChainIdArgs, w \in SignerArgs : sign(c, w)
    \/ \E call \in BagToSet(pending) :
           \E sig \in Signatures(call) : signerResolves(call, sig)
    \/ \E call \in BagToSet(pending) : signerRejects(call)

SpecCopy == InitRepo /\ [][NextCopy]_vars

\* the values unseal is called with: scalars, sealed items of each type and
\* nested arrays and objects
UnsealItems ==
    {Scalar("number", 7), Scalar("string", 3), Scalar("boolean", 1)}
    \cup {SealedItem(u, c) : u \in {"bool", "address", "uint"},
                             c \in Ciphertexts}
    \cup { Array(<<SealedItem("bool", 2), Scalar("number", 7),
                   SealedItem("address", 2)>>),
           Object(<<"flag", "owner", "rest">>,
                  << SealedItem("bool", 1), SealedItem("address", 200),
                     Array(<<Scalar("string", 3), SealedItem("uint", 2)>>) >>),
           Array(<<Scalar("number", 7),
                   Object(<<"owner">>, <<SealedItem("address", 1)>>)>>) }

\* permit.unseal(item) with its result
unsealItem(item) ==
    LET ret == unsealValue(permit, item)
    IN /\ permit' = afterUnseal(permit)
       /\ last' = [ op |-> "unsealItem",
                    phase |-> IF ret = Thrown THEN "throw" ELSE "return",
                    item |-> item,
                    ret |-> ret ]
       /\ UNCHANGED <<snapshot, storage, pending, clock, permits,
                      activePermitHash>>

\* a permit that is signed on either chain and used to unseal
NextUnseal ==
    \/ \E c \in ChainIdArgs, w \in SignerArgs : sign(c, w)
    \/ \E call \in BagToSet(pending) :
           \E sig \in Signatures(call) : signerResolves(call, sig)
    \/ \E call \in BagToSet(pending) : signerRejects(call)
    \/ \E item \in UnsealItems : unsealItem(item)

SpecUnseal == InitRepo /\ [][NextUnseal]_vars

\* the repository across process restarts
NextDurable ==
    \/ \E a \in Accounts : setPermit(a)
    \/ \E a \in Accounts, h \in RepoHashes : removePermit(a, h)
    \/ \E a \in Accounts, h \in RepoHashes : setActivePermitHash(a, h)
    \/ \E a \in Accounts : removeActivePermitHash(a)
    \/ restart

SpecDurable == InitRepo /\ [][NextDurable]_vars

----------------------------------------------------------------------------
(* Properties *)

\* the current time in whole seconds, Math.floor(Date.now() / 1000)
NowSeconds == DateNow \div 1000

SignatureFields(p) ==
    <<p.issuerSignature, p.recipientSignature, p._signedChainId>>

\* C1: a rejected or hung signer call leaves issuerSignature,
\* recipientSignature and signedChainId as they were: these fields change
\* only in the step in which a sign call receives its signature, and the
\* steps that suspend a call or see it rejected change none of them.
C1_RejectedOrHungSignerLeavesPermit ==
    [][ /\ SignatureFields(permit') # SignatureFields(permit) =>
               /\ last'.op = "sign"
               /\ last'.phase = "return"
               /\ last'.signature # EmptySignature
               /\ BagCardinality(pending') = BagCardinality(pending) - 1
        /\ (last' # last /\ last'.phase \in {"await", "rejected"}) =>
               SignatureFields(permit') = SignatureFields(permit)
      ]_vars

C1_Witness ==
    /\ last.op = "sign" /\ last.phase = "rejected"
    /\ \E call \in BagToSet(pending) : call.op = "sign"
    /\ SignatureFields(permit) = <<EmptySignature, EmptySignature, Undefined>>

\* C2: sign with an absent chainId or an absent signer throws for a permit
\* of any kind, invokes no signer and changes no field of the permit;
\* createAndSign with an absent chainId or signer returns no permit.
C2_SignPreconditions ==
    [][ ( /\ last' # last
          /\ last'.op \in {"sign", "createAndSign"}
          /\ (last'.chainId = Undefined \/ last'.signer = Undefined) ) =>
            /\ last'.phase = "throw"
            /\ last'.ret = Undefined
            /\ pending' = pending
            /\ permit' = permit
      ]_vars

C2_Witness ==
    /\ last.op = "sign" /\ last.phase = "throw"
    /\ last.chainId # Undefined /\ last.signer = Undefined
    /\ permit.type = "recipient"

\* C3: when sign completes with signature s, a Self or Sharing permit has
\* issuerSignature = s and its recipientSignature untouched, a Recipient
\* permit has recipientSignature = s and its issuerSignature untouched,
\* signedChainId is the chain id sign was called with, and the payload was
\* built for the variant of the permit's kind.
C3_SignAssignsByKind ==
    [][ (last' # last /\ last'.op = "sign" /\ last'.phase = "return") =>
            /\ permit'._signedChainId = last'.chainId
            /\ permit.type \in {"self", "sharing"} =>
                   /\ permit'.issuerSignature = last'.signature
                   /\ permit'.recipientSignature = permit.recipientSignature
            /\ permit.type = "recipient" =>
                   /\ permit'.recipientSignature = last'.signature
                   /\ permit'.issuerSignature = permit.issuerSignature
            /\ permit.type = "self" =>
                   last'.primaryType = "PermissionedIssuerSelf"
            /\ permit.type = "sharing" =>
                   last'.primaryType = "PermissionedIssuerShared"
            /\ permit.type = "recipient" =>
                   last'.primaryType = "PermissionedRecipient"
      ]_vars

C3_Witness ==
    /\ last.op = "sign" /\ last.phase = "return"
    /\ permit.type = "recipient"
    /\ permit.recipientSignature = last.signature
    /\ permit.recipientSignature # EmptySignature
    /\ permit.issuerSignature = ImportedSignature
    /\ permit._signedChainId = last.chainId

Expired == [valid |-> FALSE, error |-> "expired"]
NotSigned == [valid |-> FALSE, error |-> "not-signed"]
Valid == [valid |-> TRUE, error |-> "null"]

\* C4: isValid reports "expired" for every permit whose expiration is at or
\* before the current time in whole seconds, the case expiration = now
\* included.
C4_ExpiredAtOrBeforeNow ==
    permit.expiration <= NowSeconds => isValid(permit) = Expired

\* C5: a permit whose expiration is earlier than now is reported "expired",
\* never "not-signed", whatever its kind and its signatures.
C5_ExpirationBeforeSignedness ==
    permit.expiration < NowSeconds => isValid(permit) = Expired

C5_Witness ==
    /\ permit.expiration < NowSeconds
    /\ permit.type = "self"
    /\ permit.issuerSignature = EmptySignature
    /\ isValid(permit) = Expired

\* the signature of the party that signs a permit of this kind
KindSignature(p) ==
    IF p.type = "recipient" THEN p.recipientSignature ELSE p.issuerSignature

\* C6: an unexpired permit is "not-signed" exactly when the signature of its
\* kind is still "0x", and valid otherwise; it is valid once sign has
\* completed on it (which is when signedChainId is recorded).
C6_NotSignedUntilSigned ==
    permit.expiration > NowSeconds =>
        /\ (isValid(permit) = NotSigned) <=>
               (KindSignature(permit) = EmptySignature)
        /\ (isValid(permit) = Valid) <=>
               (KindSignature(permit) # EmptySignature)
        /\ permit._signedChainId # Undefined => isValid(permit) = Valid

C6_Witness ==
    /\ permit.expiration > NowSeconds
    /\ permit.type = "recipient"
    /\ permit._signedChainId # Undefined
    /\ permit.issuerSignature # EmptySignature
    /\ KindSignature(permit) # EmptySignature
    /\ isValid(permit) = Valid

\* every permit Permit.create returns for the options of the model
CreatedPermits ==
    { create(o, g)[1] :
        o \in {x \in PermitOptions : PermitParamsValidator(x)},
        g \in KeyPairs }

SameTuple(p, q) ==
    /\ p.type = q.type
    /\ p.issuer = q.issuer
    /\ p.expiration = q.expiration
    /\ p.recipient = q.recipient
    /\ p.validatorId = q.validatorId
    /\ p.validatorContract = q.validatorContract

\* C7: getHash depends on {kind, issuer, expiration, recipient, validatorId,
\* validatorContract} only: no updateName or sign step changes it, and the
\* permit has the hash of another permit exactly when the two agree on
\* every field of the tuple.
C7_HashOfTupleOnly ==
    /\ [](\A q \in CreatedPermits :
              (getHash(permit) = getHash(q)) <=> SameTuple(permit, q))
    /\ [][getHash(permit') = getHash(permit)]_vars

C7_Witness ==
    /\ permit.name = "n2"
    /\ permit.issuerSignature # EmptySignature
    /\ permit._signedChainId # Undefined
    /\ \E q \in CreatedPermits :
           /\ getHash(q) = getHash(permit)
           /\ q.name # permit.name
           /\ q.sealingPair # permit.sealingPair
           /\ q.issuerSignature # permit.issuerSignature

\* C8: deserialize(serialize(p)) has the hash, both signatures, the sealing
\* public and private key, the signedChainId, the name and the kind of p.
C8_SerializeRoundTrip ==
    LET q == deserialize(serialize(permit))
    IN /\ getHash(q) = getHash(permit)
       /\ q.issuerSignature = permit.issuerSignature
       /\ q.recipientSignature = permit.recipientSignature
       /\ q.sealingPair.publicKey = permit.sealingPair.publicKey
       /\ q.sealingPair.privateKey = permit.sealingPair.privateKey
       /\ q._signedChainId = permit._signedChainId
       /\ q.name = permit.name
       /\ q.type = permit.type

C8_Witness ==
    /\ permit.type = "recipient"
    /\ permit.recipientSignature # EmptySignature
    /\ permit._signedChainId = Some(<<3, 1, 3, 3, 7>>)
    /\ permit.name = "n2"
    /\ deserialize(serialize(permit)).recipientSignature
           = permit.recipientSignature

IssuerFields ==
    {"issuer", "expiration", "recipient", "validatorId", "validatorContract"}

\* C9: the message handed to the signer has the keys of the kind's variant:
\* the five issuer fields for Sharing, those and sealingKey for Self, and
\* exactly sealingKey and issuerSignature for Recipient; each key carries
\* the permit's field of that name (sealingKey the public key), so neither
\* name, kind, recipientSignature nor the private key is in it.
C9_MessageKeysByKind ==
    \A call \in BagToSet(pending) :
        LET message == call.message
            keys == DOMAIN message
        IN /\ permit.type = "sharing" => keys = IssuerFields
           /\ permit.type = "self" => keys = IssuerFields \cup {"sealingKey"}
           /\ permit.type = "recipient" =>
                  keys = {"sealingKey", "issuerSignature"}
           /\ keys \cap {"name", "type", "kind", "recipientSignature",
                         "sealingPair", "privateKey"} = {}
           /\ \A k \in keys \ {"sealingKey"} : message[k] = permit[k]
           /\ "sealingKey" \in keys =>
                  message.sealingKey = <<"0x", permit.sealingPair.publicKey>>

C9_Witness ==
    /\ permit.type = "sharing"
    /\ \E call \in BagToSet(pending) : DOMAIN call.message = IssuerFields

\* C10: removing a stored permit leaves get absent and the listing without
\* it; an active pointer at the removed hash stays as it is and getActive
\* then returns absent, without an error.
C10_RemoveAfterPut ==
    [][ \A a \in Accounts, h \in RepoHashes :
          ( /\ SavedPermit(a, h) # Undefined
            /\ last'.op = "removePermit"
            /\ last'.account = a
            /\ last'.hash = h ) =>
              /\ last'.phase = "return"
              /\ getPermit(Some(a), Some(h))' = Undefined
              /\ h \notin DOMAIN (getPermits(Some(a))')
              /\ getActivePermitHash(Some(a)) = Some(h) =>
                     /\ getActivePermit(Some(a))' = Undefined
                     /\ getActivePermitHash(Some(a))' = Some(h)
      ]_vars

C10_Witness ==
    \E a \in Accounts, h \in RepoHashes :
        /\ last = RepoOutcome("removePermit", "return", a, h)
        /\ a \in DOMAIN permits
        /\ DOMAIN permits[a] = {h}
        /\ getActivePermitHash(Some(a)) = Some(h)
        /\ getActivePermit(Some(a)) = Undefined
        /\ getPermit(Some(a), Some(h)) = Undefined

\* a hash no permit of the repository runs has
NeverWrittenHash == <<"sharing", "0xA2", 2, "0xB1", 7, "0xC1">>

\* the arguments lookups are called with: written, never written and absent
AccountArgs == {Undefined} \cup {Some(a) : a \in Accounts \cup {"acc3"}}
HashArgs == {Undefined} \cup {Some(h) : h \in RepoHashes \cup {NeverWrittenHash}}

\* the slot (a, h) exists and holds a permit
LiveSlot(a, h) ==
    /\ a \in DOMAIN permits
    /\ h \in DOMAIN permits[a]
    /\ permits[a][h] # Undefined

\* C11: getPermit, getActivePermit and getPermits raise no error for any
\* account and hash, absent and never written ones included; getPermit
\* returns a permit exactly for a live slot, getActivePermit exactly when the
\* pointer is set and its slot is live, getPermits lists exactly the live
\* slots; setActivePermitHash sets the pointer to any hash it is given.
C11_LookupsNeverFail ==
    /\ [](\A account \in AccountArgs :
            /\ ~getActivePermitThrows(account)
            /\ ~getPermitsThrows(account)
            /\ \A hash \in HashArgs :
                   /\ ~getPermitThrows(account, hash)
                   /\ getPermit(account, hash) # Undefined <=>
                          ( /\ account # Undefined
                            /\ hash # Undefined
                            /\ LiveSlot(account[1], hash[1]) )
            /\ getActivePermit(account) # Undefined <=>
                   ( /\ account # Undefined
                     /\ account[1] \in DOMAIN activePermitHash
                     /\ activePermitHash[account[1]] # Undefined
                     /\ LiveSlot(account[1],
                                 activePermitHash[account[1]][1]) )
            /\ DOMAIN getPermits(account) =
                   IF account = Undefined THEN {}
                   ELSE {h \in RepoHashes : LiveSlot(account[1], h)})
    /\ [][ (last' # last /\ last'.op = "setActivePermitHash") =>
               /\ last'.phase = "return"
               /\ Lookup(activePermitHash', last'.account) = Some(last'.hash)
         ]_vars

C11_Witness ==
    \E a \in Accounts, h \in RepoHashes :
        /\ last = RepoOutcome("setActivePermitHash", "return", a, h)
        /\ a \notin DOMAIN permits
        /\ getActivePermitHash(Some(a)) = Some(h)
        /\ getActivePermit(Some(a)) = Undefined
        /\ \E b \in Accounts : LiveSlot(b, h)

\* the hash keys of an account's slot map
SlotKeys(obj, a) == IF a \in DOMAIN obj THEN DOMAIN obj[a] ELSE {}

\* the step is a call of the repository mutation `op`
RepoStep(op) == last'.op = op /\ (last' # last \/ permits' # permits)

\* C12: setPermit stores the serialized permit under the permit's own hash,
\* creates the slot map of an account that has none, and replaces what the
\* slot held; in every state each live slot (a, h) holds a permit whose
\* getHash is h.
C12_PutUnderOwnHash ==
    /\ [](\A a \in Accounts, h \in RepoHashes :
            LiveSlot(a, h) => getHash(getPermit(Some(a), Some(h))[1]) = h)
    /\ [][ RepoStep("setPermit") =>
               LET a == last'.account
                   h == getHash(permit)
               IN /\ last'.hash = h
                  /\ a \in DOMAIN permits'
                  /\ SlotKeys(permits', a) = SlotKeys(permits, a) \cup {h}
                  /\ permits'[a][h] = Some(serialize(permit))
                  /\ deserialize(permits'[a][h][1]) = permit
                  /\ \A k \in SlotKeys(permits, a) \ {h} :
                         permits'[a][k] = permits[a][k]
         ]_vars

C12_Witness ==
    \E a \in Accounts, h \in RepoHashes :
        /\ last = RepoOutcome("setPermit", "return", a, h)
        /\ LiveSlot(a, h)
        /\ permits[a][h][1].name = "n2"
        /\ \E b \in Accounts \ {a} :
               LiveSlot(b, h) /\ permits[b][h][1].name = "n1"

\* C13: removePermit overwrites the slot with undefined and keeps its key; no
\* step removes a hash key from an account's slot map; setPermit of a permit
\* whose hash is a soft-deleted slot makes the slot live again.
C13_SoftDelete ==
    [][ /\ \A a \in Accounts : SlotKeys(permits, a) \subseteq SlotKeys(permits', a)
        /\ (RepoStep("removePermit") /\ last'.phase = "return") =>
               LET a == last'.account
                   h == last'.hash
               IN /\ SlotKeys(permits', a) = SlotKeys(permits, a) \cup {h}
                  /\ permits'[a][h] = Undefined
                  /\ \A k \in SlotKeys(permits, a) \ {h} :
                         permits'[a][k] = permits[a][k]
        /\ ( /\ RepoStep("setPermit")
             /\ getHash(permit) \in SlotKeys(permits, last'.account)
             /\ permits[last'.account][getHash(permit)] = Undefined ) =>
               permits'[last'.account][getHash(permit)] # Undefined
      ]_vars

C13_Witness ==
    \E a \in Accounts, h \in RepoHashes :
        /\ last = RepoOutcome("removePermit", "return", a, h)
        /\ h \in SlotKeys(permits, a)
        /\ permits[a][h] = Undefined
        /\ getPermit(Some(a), Some(h)) = Undefined
        /\ \E k \in SlotKeys(permits, a) : permits[a][k] # Undefined

\* state[account] of one of the two mappings, undefined when the key is missing
Subtree(obj, account) ==
    IF account \in DOMAIN obj THEN Some(obj[account]) ELSE Undefined

\* the step is a call of one of the four repository mutations
MutationStep ==
    /\ last'.op \in {"setPermit", "removePermit", "setActivePermitHash",
                     "removeActivePermitHash"}
    /\ \/ last' # last
       \/ permits' # permits
       \/ activePermitHash' # activePermitHash

\* C14: a mutation on account A leaves the slot map and the active pointer of
\* every other account as they were; setPermit and removePermit leave every
\* active pointer as it was; setActivePermitHash and removeActivePermitHash
\* leave every slot map as it was.
C14_NoInterference ==
    [][ MutationStep =>
          /\ \A b \in (Accounts \cup {"acc3"}) \ {last'.account} :
                 /\ Subtree(permits', b) = Subtree(permits, b)
                 /\ Subtree(activePermitHash', b)
                        = Subtree(activePermitHash, b)
          /\ last'.op \in {"setPermit", "removePermit"} =>
                 activePermitHash' = activePermitHash
          /\ last'.op \in {"setActivePermitHash", "removeActivePermitHash"} =>
                 permits' = permits
      ]_vars

C14_Witness ==
    \E a \in Accounts, b \in Accounts, h \in RepoHashes, k \in RepoHashes :
        /\ a # b /\ h # k
        /\ last = RepoOutcome("setActivePermitHash", "return", a, h)
        /\ Subtree(activePermitHash, a) = Some(Some(h))
        /\ Subtree(activePermitHash, b) = Some(Some(k))
        /\ LiveSlot(a, h) /\ LiveSlot(b, k)

\* the state object the store holds now
CurrentState == [permits |-> permits, activePermitHash |-> activePermitHash]

\* a slot map exists only with the slot its put wrote: an empty slot map is
\* the first half of a setPermit recipe
WholeWrites(state) ==
    \A a \in DOMAIN state.permits : DOMAIN state.permits[a] # {}

\* C15: a write leaves the state object a reader took earlier as it was and
\* installs a new one; a reader takes the state between two writes, so what
\* it holds never shows the part of a write (a slot map created by setPermit
\* and not yet filled), and a write that throws installs nothing.
C15_ImmutableSnapshots ==
    /\ [](WholeWrites(CurrentState) /\ WholeWrites(snapshot))
    /\ [][ /\ MutationStep => snapshot' = snapshot
           /\ (MutationStep /\ last'.phase = "throw") =>
                  CurrentState' = CurrentState
           /\ snapshot' # snapshot => snapshot' = CurrentState
         ]_vars

C15_Witness ==
    \E a \in Accounts, h \in RepoHashes :
        /\ last = RepoOutcome("setPermit", "return", a, h)
        /\ LiveSlot(a, h)
        /\ h \in SlotKeys(snapshot.permits, a)
        /\ snapshot.permits[a][h] = Undefined
        /\ snapshot.activePermitHash = activePermitHash

\* C16: a restart that rehydrates the state from the storage item leaves the
\* results of getPermit, getActivePermit, getPermits and getActivePermitHash
\* as they were just before it, for every account and hash.
C16_Durable ==
    [][ (last' # last /\ last'.op = "restart") =>
            \A account \in AccountArgs :
                /\ getActivePermitHash(account)' = getActivePermitHash(account)
                /\ getActivePermit(account)' = getActivePermit(account)
                /\ getPermits(account)' = getPermits(account)
                /\ \A hash \in HashArgs :
                       getPermit(account, hash)' = getPermit(account, hash)
      ]_vars

C16_Witness ==
    \E a \in Accounts, h \in RepoHashes, k \in RepoHashes :
        /\ last.op = "restart"
        /\ h # k
        /\ LiveSlot(a, h)
        /\ k \notin SlotKeys(permits, a)
        /\ getActivePermitHash(Some(a)) = Some(k)
        /\ storage # Undefined
        /\ \E b \in Accounts : b \notin DOMAIN activePermitHash

\* the part of the export payload that does not depend on the kind
ExportCommon(p) ==
    LET e == export(p)
    IN /\ {"name", "type", "issuer", "expiration"} \subseteq DOMAIN e
       /\ e.name = p.name /\ e.type = p.type
       /\ e.issuer = p.issuer /\ e.expiration = p.expiration
       /\ "recipient" \in DOMAIN e <=> p.recipient # ZeroAddress
       /\ "validatorId" \in DOMAIN e <=> p.validatorId # 0
       /\ "validatorContract" \in DOMAIN e <=>
              p.validatorContract # ZeroAddress
       /\ \A k \in DOMAIN e \ {"name", "type", "issuer", "expiration"} :
              e[k] = p[k]
       /\ DOMAIN e \cap {"sealingPair", "recipientSignature",
                         "_signedChainId"} = {}

\* C17 as stated: the payload holds issuerSignature exactly when it differs
\* from "0x", for permits of every kind.
C17_ExportEveryKind ==
    /\ ExportCommon(permit)
    /\ "issuerSignature" \in DOMAIN export(permit) <=>
           permit.issuerSignature # EmptySignature

\* C17 (amended): the payload holds name, kind, issuer and expiration, each of
\* recipient, validatorId and validatorContract exactly when it is not the
\* default, issuerSignature exactly when the kind is sharing and the signature
\* is not "0x", and never the sealing pair, recipientSignature or the signed
\* chain id.
C17_ExportPayload ==
    /\ ExportCommon(permit)
    /\ "issuerSignature" \in DOMAIN export(permit) <=>
           (permit.type = "sharing" /\ permit.issuerSignature # EmptySignature)

C17_Witness ==
    /\ permit.type = "sharing"
    /\ permit._signedChainId # Undefined
    /\ permit.validatorId # 0
    /\ permit.validatorContract = ZeroAddress
    /\ DOMAIN export(permit) =
           {"name", "type", "issuer", "expiration", "recipient",
            "validatorId", "issuerSignature"}
    /\ export(permit).issuerSignature = permit.issuerSignature

\* the integer a numeric chain id string denotes
ChainIdNumber(c) == IF c = <<1>> THEN 1 ELSE 31337

\* C18 as stated: sign with a non-numeric chain id fails before the signer is
\* invoked and leaves the permit as it was; for a numeric chain id the domain
\* handed to the signer has the constant name and version, the chain id as an
\* integer and the zero verifying contract.
C18_NonNumericChainIdFails ==
    /\ [](\A call \in BagToSet(pending) :
            /\ call.chainId # NonNumericChainId
            /\ call.domain = [ name |-> "Fhenix Permission 1.0.0",
                               version |-> "1.0.0",
                               chainId |-> ChainIdNumber(call.chainId),
                               verifyingContract |-> ZeroAddress ])
    /\ [][ ( /\ last' # last
             /\ last'.op = "sign"
             /\ last'.chainId = Some(NonNumericChainId) ) =>
               /\ last'.phase = "throw"
               /\ pending' = pending
               /\ permit' = permit
         ]_vars

\* C19: the sealing pair and the identity tuple never change; a step that
\* changes the name changes nothing else of the permit; a step that changes a
\* signature field or the signed chain id is the completion of a sign call and
\* leaves the name; a call of getHash, getPermission, getSignatureParams,
\* serialize, export, isSigned, isExpired, isValid or unseal leaves every
\* field as it was.
C19_OnlySignAndNameChange ==
    [][ /\ permit'.sealingPair = permit.sealingPair
        /\ SameTuple(permit', permit)
        /\ permit'.name # permit.name =>
               [permit' EXCEPT !.name = permit.name] = permit
        /\ SignatureFields(permit') # SignatureFields(permit) =>
               /\ last'.op = "sign" /\ last'.phase = "return"
               /\ permit'.name = permit.name
        /\ (last' # last /\ last'.op \in Projections \cup {"unseal"}) =>
               permit' = permit
      ]_vars

C19_Witness ==
    /\ last.op = "getSignatureParams"
    /\ permit.name = "n2"
    /\ permit._signedChainId = Some(<<3, 1, 3, 3, 7>>)
    /\ isSigned(permit)
    /\ pending # EmptyBag

\* a sign call has completed on the permit: sign records the chain id when,
\* and only when, it stores the signature
SignCompleted(p) == p._signedChainId # Undefined

\* C20 as stated: the signature of the permit's kind differs from "0x"
\* exactly when a sign call has completed on the permit.
C20_SignatureIffSigned ==
    KindSignature(permit) # EmptySignature <=> SignCompleted(permit)

\* C20 (amended): once a sign call has completed on a permit the signature of
\* its kind differs from "0x", and a signature of its kind other than "0x" is
\* the one the permit was constructed with or the result of a completed sign
\* call; only the completion of a sign call marks the permit as signed.
C20_SignatureSetBySignOrOptions ==
    /\ [](/\ SignCompleted(permit) => KindSignature(permit) # EmptySignature
          /\ KindSignature(permit) \notin {EmptySignature, ImportedSignature}
                 => SignCompleted(permit))
    /\ [][ KindSignature(permit') # KindSignature(permit) =>
               /\ last'.op = "sign" /\ last'.phase = "return"
               /\ KindSignature(permit') = last'.signature
               /\ SignCompleted(permit')
         ]_vars

C20_Witness ==
    /\ last.op = "deserialize"
    /\ permit.type = "sharing"
    /\ permit.recipientSignature = ImportedSignature
    /\ SignCompleted(permit)
    /\ permit.issuerSignature \notin {EmptySignature, ImportedSignature}

\* C22 as stated: removePermit for an account that has no slot map returns
\* without error and leaves permits and activePermitHash as they were.
C22_RemoveOnMissingAccount ==
    [][ ( /\ last' # last
          /\ last'.op = "removePermit"
          /\ last'.account \notin DOMAIN permits ) =>
            /\ last'.phase = "return"
            /\ permits' = permits
            /\ activePermitHash' = activePermitHash
      ]_vars

\* C24: with several sign calls in flight, after each completion the
\* signature of the permit's kind and _signedChainId are those of one call:
\* the signature was returned for a payload whose domain carries the chain id
\* now recorded.
C24_SignatureAndChainIdFromOneCall ==
    /\ [](SignCompleted(permit) =>
            /\ KindSignature(permit) # EmptySignature
            /\ KindSignature(permit)[1]
                   = ChainIdNumber(permit._signedChainId[1]))
    /\ [][ ( /\ last' # last
             /\ last'.op = "sign"
             /\ last'.phase = "return" ) =>
               /\ KindSignature(permit') = last'.signature
               /\ permit'._signedChainId = last'.chainId
         ]_vars

C24_Witness ==
    /\ last.op = "sign" /\ last.phase = "return"
    /\ permit._signedChainId = Some(<<1>>)
    /\ KindSignature(permit) = <<1, 1>>
    /\ \E call \in BagToSet(pending) :
           /\ call.chainId = <<3, 1, 3, 3, 7>>
           /\ call.domain.chainId = 31337

\* C23: a step that changes the instance (sign completing, updateName, or
\* going on with a permit that getPermit returned and changing that) leaves
\* what getPermit returns for every account and hash as it was; the stored
\* entry changes only by setPermit.
C23_StoredCopy ==
    [][ /\ permit' # permit =>
               \A a \in SnapshotAccounts, h \in RepoHashes :
                   getPermit(Some(a), Some(h))' = getPermit(Some(a), Some(h))
        /\ permits' # permits =>
               /\ last'.op = "setPermit"
               /\ permit' = permit
      ]_vars

C23_Witness ==
    \E a \in SnapshotAccounts :
        LET stored == getPermit(Some(a), Some(getHash(permit)))
        IN /\ stored # Undefined
           /\ stored[1].name = "n1"
           /\ stored[1].issuerSignature = EmptySignature
           /\ stored[1]._signedChainId = Undefined
           /\ permit.name = "n2"
           /\ permit.issuerSignature # EmptySignature
           /\ SignCompleted(permit)

\* the integer a sealed item decrypts to: by the mock exactly when the signed
\* chain id is the one of the local development network
Decrypted(p, data) ==
    IF p._signedChainId = Some(<<3, 1, 3, 3, 7>>) THEN data
    ELSE Plaintext(data)

\* the value C21 describes for `item`: the same shape, every sealed leaf
\* replaced according to its type, every other leaf as it is
RECURSIVE Unsealed(_, _)
Unsealed(p, item) ==
    IF item.k = "sealed"
    THEN LET bn == Decrypted(p, item.v)
         IN IF item.u = "bool"
            THEN Scalar("boolean", IF bn = 0 THEN 0 ELSE 1)
            ELSE IF item.u = "address"
            THEN Scalar("address", bn % (16 ^ AddressHexDigits))
            ELSE Scalar("bigint", bn)
    ELSE IF item.k \in {"array", "object"}
    THEN [item EXCEPT !.kids = [i \in DOMAIN item.kids |->
                                    Unsealed(p, item.kids[i])]]
    ELSE item

\* C21 as stated: unseal returns scalars unchanged and a nested value with
\* the same shape, sealed booleans as booleans, sealed addresses as the
\* address of the low 160 bits of the decrypted integer, sealed uints as the
\* decrypted integer, decrypted by the mock exactly on the local development
\* network.
C21_UnsealReplacesSealedLeaves ==
    last.op = "unsealItem" =>
        /\ last.phase = "return"
        /\ last.ret = Unsealed(permit, last.item)

====
